---------------------------- MODULE Spec2Model ----------------------------
(***************************************************************************)
(* tun2.c: two TUN interfaces cross-connected in userspace.                *)
(*                                                                         *)
(* The model follows main() and tun_alloc() statement by statement.  The   *)
(* operating system (open/ioctl/close/select/read/write, the arrival of    *)
(* packets on an interface, process termination) is the environment: each  *)
(* system call is made where the code makes it, and its outcome is drawn   *)
(* from the outcomes the call can have.                                    *)
(*                                                                         *)
(* Byte strings (the packet buffer, packets) are kept run-length encoded:  *)
(* a sequence of runs [n |-> count, b |-> byte], so that the buffer keeps  *)
(* its real capacity of 16384 bytes.                                       *)
(***************************************************************************)
EXTENDS Integers, Sequences, FiniteSets, TLC

VARIABLES
    pc,        \* position of main(): "alloc1","chk1","alloc2","chk2","wait","svc1","wr1","svc2","wr2","exited"
    apc,       \* position inside tun_alloc(): "open","ioctl" ("idle" outside a call)
    afd,       \* tun_alloc's local fd
    status,    \* exit status of the process (NoStatus while it runs)
    openFds,   \* descriptors open in the process
    units,     \* tun unit numbers in use in the system
    attached,  \* descriptor -> interface name, for descriptors bound by TUNSETIFF
    dev1, dev2,\* main's name buffers
    fd1, fd2,  \* main's handles
    buf,       \* main's packet buffer (run-length encoded bytes)
    len,       \* main's ssize_t len
    fds,       \* the fd_set
    nfds,      \* main's nfds
    q,         \* descriptor -> packets the kernel has queued for reading on it
    injected,  \* number of packets that ever arrived on the two interfaces
    rd,        \* descriptor -> byte strings returned by successful reads on it
    wr,        \* descriptor -> write attempts made on it
    pending,   \* reported-ready descriptor -> the packet (if any) queued on it when select returned
    ev         \* system calls and diagnostics issued since the loop's top (since start, before the loop)

vars == <<pc, apc, afd, status, openFds, units, attached, dev1, dev2, fd1, fd2,
          buf, len, fds, nfds, q, injected, rd, wr, pending, ev>>

-----------------------------------------------------------------------------
(* Bounds of the model *)

\* descriptors are 0..MaxFd; open() fails with EMFILE beyond it
MaxFd == 5
\* packets that arrive on the two interfaces during a run
MaxInject == 2
\* tun unit numbers are 0..MaxUnit
MaxUnit == 2

-----------------------------------------------------------------------------
(* Program constants *)

\* sizeof(buf)
BufSize == 16384
\* size of the name buffers and of ifr.ifr_name
IFNAMSIZ == 16

NoStatus == "running"
Fds == 0 .. MaxFd

-----------------------------------------------------------------------------
(* Byte strings, run-length encoded *)

Run(n, b) == [n |-> n, b |-> b]

RECURSIVE BLen(_)
BLen(r) == IF r = <<>> THEN 0 ELSE Head(r).n + BLen(Tail(r))

\* the first k bytes of r
RECURSIVE BTake(_, _)
BTake(r, k) ==
    IF k <= 0 \/ r = <<>> THEN <<>>
    ELSE IF Head(r).n <= k THEN <<Head(r)>> \o BTake(Tail(r), k - Head(r).n)
    ELSE <<Run(k, Head(r).b)>>

\* r without its first k bytes
RECURSIVE BDrop(_, _)
BDrop(r, k) ==
    IF k <= 0 \/ r = <<>> THEN r
    ELSE IF Head(r).n <= k THEN BDrop(Tail(r), k - Head(r).n)
    ELSE <<Run(Head(r).n - k, Head(r).b)>> \o Tail(r)

\* concatenation, keeping the encoding canonical (adjacent equal runs merged)
BCat(a, b) ==
    IF a = <<>> THEN b
    ELSE IF b = <<>> THEN a
    ELSE IF a[Len(a)].b = b[1].b
         THEN SubSeq(a, 1, Len(a) - 1)
              \o <<Run(a[Len(a)].n + b[1].n, b[1].b)>>
              \o Tail(b)
         ELSE a \o b

\* a variant in which the bytes read do not reach the buffer
StoreNothing(mem, data) == mem

\* memory after n = BLen(data) bytes are stored at the start of mem
Store(mem, data) == BCat(data, BDrop(mem, BLen(data)))

-----------------------------------------------------------------------------
(* Environment: packets and interface names *)

\* the packets that may arrive: empty, one byte, exactly the buffer's capacity,
\* one byte more than that
Packets ==
    { <<>>,
      <<Run(1, 1)>>,
      <<Run(BufSize, 2)>>,
      <<Run(BufSize + 1, 3)>> }

\* what an uninitialised buffer may hold
JunkBufs == { <<Run(BufSize, 0)>>, <<Run(BufSize, 1)>> }

Template == <<"t", "u", "n", "%", "d">>
Digits == <<"0", "1", "2", "3", "4", "5", "6", "7", "8", "9">>

\* the name the kernel gives for a requested name: "%d" replaced by a free unit
KernelName(req, unit) ==
    IF Len(req) >= 2 /\ SubSeq(req, Len(req) - 1, Len(req)) = <<"%", "d">>
    THEN SubSeq(req, 1, Len(req) - 2) \o <<Digits[unit + 1]>>
    ELSE req

\* the request the kernel sees: an empty name asks for the default template
Requested(ifrName) == IF ifrName = <<>> THEN Template ELSE ifrName

\* the kernel gives the lowest free unit number
FreeUnits == (0 .. MaxUnit) \ units
LowestUnit == CHOOSE u \in FreeUnits : \A v \in FreeUnits : u <= v

\* open() returns the lowest-numbered descriptor not open in the process
FreeFds == Fds \ openFds
LowestFree == CHOOSE f \in FreeFds : \A g \in FreeFds : f <= g

\* one entry of the trace of system calls and diagnostics
Ev(op, fd, res, data) == [op |-> op, fd |-> fd, res |-> res, data |-> data]

NoName == [f \in {} |-> <<>>]

-----------------------------------------------------------------------------
(* Initial state: main() entered, locals declared *)

Init ==
    /\ pc = "alloc1"
    /\ apc = "open"
    /\ afd = -1
    /\ status = NoStatus
    /\ openFds \in { {0, 1, 2}, {1, 2} }
    /\ units \in { {}, {0} }
    /\ attached = NoName
    /\ dev1 = Template
    /\ dev2 = Template
    /\ fd1 = -1
    /\ fd2 = -1
    /\ buf \in JunkBufs
    /\ len = 0
    /\ fds = {}
    /\ nfds = 0
    /\ q = [f \in Fds |-> <<>>]
    /\ injected = 0
    /\ rd = [f \in Fds |-> <<>>]
    /\ wr = [f \in Fds |-> <<>>]
    /\ pending = NoName
    /\ ev = <<>>

-----------------------------------------------------------------------------
(* tun_alloc(dev) *)

\* the call site: 1 for fd1 = tun_alloc(dev1), 2 for fd2 = tun_alloc(dev2)
Site == IF pc = "alloc1" THEN 1 ELSE 2
DevArg == IF Site = 1 THEN dev1 ELSE dev2

\* return v to the caller, which stores it in fd1 or fd2
Return(v) ==
    /\ apc' = "idle"
    /\ IF Site = 1
       THEN /\ fd1' = v /\ pc' = "chk1" /\ UNCHANGED fd2
       ELSE /\ fd2' = v /\ pc' = "chk2" /\ UNCHANGED fd1

\* strncpy(ifr.ifr_name, dev, IFNAMSIZ) into the zeroed ifr, when *dev
IfrName(dev) ==
    IF dev # <<>>
    THEN SubSeq(dev, 1, IF Len(dev) < IFNAMSIZ THEN Len(dev) ELSE IFNAMSIZ)
    ELSE <<>>

\* a variant without the copy back into the caller's buffer
WrittenBackNothing(dev, ifrName) == dev

\* strcpy(dev, ifr.ifr_name): the caller's buffer after a successful ioctl
WrittenBack(dev, ifrName) == ifrName

\* a variant of the ioctl failure path without the close
AfterIoctlFailureNoClose(open, fd) == open

\* the descriptors left open by the ioctl failure path: close(fd)
AfterIoctlFailure(open, fd) == open \ {fd}

\* the outcomes of open("/dev/net/tun", O_RDWR): an error, or the lowest free
\* descriptor
OpenOutcomes == {-1} \cup (IF FreeFds # {} THEN {LowestFree} ELSE {})

\* a variant that goes on to the ioctl whatever open returned
OpenFailedIgnored(fd) == FALSE

\* if ((fd = open(...)) < 0)
OpenFailed(fd) == fd < 0

\* if ((fd = open("/dev/net/tun", O_RDWR)) < 0) { perror("open"); return -1; }
TunAllocOpen ==
    /\ pc \in {"alloc1", "alloc2"}
    /\ apc = "open"
    /\ \E o \in OpenOutcomes :
        /\ afd' = o
        /\ openFds' = (IF o >= 0 THEN openFds \cup {o} ELSE openFds)
        /\ IF OpenFailed(o)
           THEN /\ ev' = ev \o <<Ev("open", o, o, <<>>), Ev("perror_open", -1, -1, <<>>)>>
                /\ Return(-1)
           ELSE /\ ev' = ev \o <<Ev("open", o, o, <<>>)>>
                /\ apc' = "ioctl"
                /\ UNCHANGED <<pc, fd1, fd2>>
    /\ UNCHANGED <<status, units, attached, dev1, dev2, buf, len, fds, nfds,
                   q, injected, rd, wr, pending>>

\* memset; ifr_flags; strncpy; ioctl(TUNSETIFF); on failure perror, close, return -1;
\* on success strcpy(dev, ifr.ifr_name); return fd
TunAllocIoctl ==
    /\ pc \in {"alloc1", "alloc2"}
    /\ apc = "ioctl"
    /\ \/ /\ ev' = ev \o <<Ev("ioctl", afd, -1, IfrName(DevArg)),
                            Ev("perror_ioctl", afd, -1, <<>>),
                            Ev("close", afd, 0, <<>>)>>
          /\ openFds' = AfterIoctlFailure(openFds, afd)
          /\ Return(-1)
          /\ UNCHANGED <<units, attached, dev1, dev2>>
       \/ LET name == KernelName(Requested(IfrName(DevArg)), LowestUnit) IN
            \* the request can succeed only on an open descriptor
            /\ afd \in openFds
            /\ FreeUnits # {}
            /\ units' = units \cup {LowestUnit}
            /\ attached' = (afd :> name) @@ attached
            /\ ev' = ev \o <<Ev("ioctl", afd, 0, name)>>
            /\ IF Site = 1
               THEN dev1' = WrittenBack(dev1, name) /\ UNCHANGED dev2
               ELSE dev2' = WrittenBack(dev2, name) /\ UNCHANGED dev1
            /\ Return(afd)
            /\ UNCHANGED openFds
    /\ UNCHANGED <<afd, status, buf, len, fds, nfds, q, injected, rd, wr, pending>>

-----------------------------------------------------------------------------
(* main(): startup *)

\* a variant that never takes the failure branch
AllocFailedIgnored(fd) == FALSE

\* if (fd < 0)
AllocFailed(fd) == fd < 0

\* a variant that ends the process with status 0
ExitProcessZero(code) ==
    /\ status' = 0
    /\ pc' = "exited"
    /\ openFds' = {}
    /\ attached' = NoName
    /\ units' = units \ {u \in units : \E f \in DOMAIN attached :
                                        attached[f] = KernelName(Template, u)}

\* return 1 from main ends the process; the system closes what it held open
ExitProcess(code) ==
    /\ status' = code
    /\ pc' = "exited"
    /\ openFds' = {}
    /\ attached' = NoName
    /\ units' = units \ {u \in units : \E f \in DOMAIN attached :
                                        attached[f] = KernelName(Template, u)}

\* fd1 = tun_alloc(dev1) returned: if (fd1 < 0) return 1; printf("Created: ...")
MainCheck1 ==
    /\ pc = "chk1"
    /\ IF AllocFailed(fd1)
       THEN /\ ExitProcess(1)
            /\ UNCHANGED <<apc, ev>>
       ELSE /\ ev' = ev \o <<Ev("printf_created", fd1, 0, dev1)>>
            /\ pc' = "alloc2"
            /\ apc' = "open"
            /\ UNCHANGED <<status, openFds, attached, units>>
    /\ UNCHANGED <<afd, dev1, dev2, fd1, fd2, buf, len, fds, nfds, q, injected, rd, wr,
                   pending>>

\* fd2 = tun_alloc(dev2) returned: if (fd2 < 0) return 1; printf("Created: ...")
MainCheck2 ==
    /\ pc = "chk2"
    /\ IF AllocFailed(fd2)
       THEN /\ ExitProcess(1)
            /\ UNCHANGED <<apc, ev>>
       ELSE /\ ev' = ev \o <<Ev("printf_created", fd2, 0, dev2)>>
            /\ pc' = "wait"
            /\ UNCHANGED <<apc, status, openFds, attached, units>>
    /\ UNCHANGED <<afd, dev1, dev2, fd1, fd2, buf, len, fds, nfds, q, injected, rd, wr,
                   pending>>

-----------------------------------------------------------------------------
(* main(): the forwarding loop *)

InLoop == pc \in {"wait", "svc1", "wr1", "svc2", "wr2"}

\* a variant that builds the set once, before the loop, and then passes
\* select the set its last call left
WatchSetKept ==
    IF ev # <<>> /\ ev[1].op = "select" THEN fds ELSE {fd1} \cup {fd2}

\* FD_ZERO(&fds); FD_SET(fd1, &fds); FD_SET(fd2, &fds)
WatchSet == {fd1} \cup {fd2}

\* nfds = (fd2 > fd1 ? fd2 : fd1) + 1
NfdsArg == (IF fd2 > fd1 THEN fd2 ELSE fd1) + 1

\* the descriptors select() examines: those of the set below nfds
Watched == {f \in WatchSet : f < NfdsArg}

\* descriptors on which a read would return data
HasData == {f \in Fds : q[f] # <<>>}

\* if (nfds < 0)
SelectFailed(n) == n < 0

\* a variant that leaves the loop when select fails
AfterSelectFailureExit == "exited"

\* a variant without the continue: the ready set is examined after a failure
AfterSelectFailureFallThrough == "svc1"

\* where the loop goes after a failed select: continue
AfterSelectFailure == "wait"

\* fflush; FD_ZERO; FD_SET; FD_SET; nfds = select(...); if (nfds < 0) { perror; continue; }
Select ==
    /\ pc = "wait"
    /\ \E r \in {-1} \cup {Cardinality(S) : S \in SUBSET Watched} :
       \E S \in SUBSET Watched :
        \* on success the set holds the ready descriptors, among them every one
        \* with data; on failure its contents are unspecified
        /\ r >= 0 => /\ S # {}
                     /\ Cardinality(S) = r
                     /\ (HasData \cap Watched) \subseteq S
        /\ nfds' = r
        /\ fds' = S
        /\ pending' = IF r >= 0
                      THEN [f \in S |-> IF f \in HasData THEN <<Head(q[f])>> ELSE <<>>]
                      ELSE NoName
        /\ IF SelectFailed(r)
           THEN /\ ev' = <<Ev("select", NfdsArg, r, Watched), Ev("perror_select", -1, -1, <<>>)>>
                /\ pc' = AfterSelectFailure
           ELSE /\ ev' = <<Ev("select", NfdsArg, r, Watched)>>
                /\ pc' = "svc1"
    /\ UNCHANGED <<apc, afd, status, openFds, units, attached, dev1, dev2, fd1, fd2,
                   buf, len, q, injected, rd, wr>>

\* a variant in which the second block writes to fd2 as the first one does
DstFdCopied(d) == fd2

\* a variant in which the first block reads fd2 and the second fd1
SrcFdSwapped(d) == IF d = 1 THEN fd2 ELSE fd1

\* direction d reads from SrcFd(d) and writes to DstFd(d)
SrcFd(d) == IF d = 1 THEN fd1 ELSE fd2
DstFd(d) == IF d = 1 THEN fd2 ELSE fd1

SvcPc(d) == IF d = 1 THEN "svc1" ELSE "svc2"
WrPc(d) == IF d = 1 THEN "wr1" ELSE "wr2"
\* the statement after direction d's block
NextPc(d) == IF d = 1 THEN "svc2" ELSE "wait"

\* a variant in which the second block is an else branch of the first
IsSetElse(fd) == fd \in fds /\ (fd = fd1 \/ fd1 \notin fds)

\* if (FD_ISSET(fd, &fds))
IsSet(fd) == fd \in fds

\* a variant without the error check on read's result
ReadFailedIgnored(l) == FALSE

\* a variant that takes a read of zero bytes for an error too
ReadFailedOrEmpty(l) == l <= 0

\* if (len < 0)
ReadFailed(l) == l < 0

\* a variant asking read for one byte less than the buffer holds
ReadSizeShort == BufSize - 1

\* the size passed to read: sizeof(buf)
ReadSize == BufSize

\* the outcomes of read(fd, buf, sizeof(buf)): an error, or the next queued
\* packet, cut to the size asked for
ReadOutcomes(fd) ==
    { [res |-> -1, data |-> <<>>, taken |-> FALSE] }
    \cup (IF fd \in Fds /\ q[fd] # <<>>
          THEN { [res |-> BLen(BTake(Head(q[fd]), ReadSize)),
                  data |-> BTake(Head(q[fd]), ReadSize),
                  taken |-> TRUE] }
          ELSE {})

\* if (FD_ISSET(fd, &fds)) { len = read(fd, buf, sizeof(buf));
\*   if (len < 0) perror("read"); else { printf("read %d from fd %d\n", len, fd); ...
Service(d) ==
    /\ pc = SvcPc(d)
    /\ IF ~IsSet(SrcFd(d))
       THEN /\ pc' = NextPc(d)
            /\ UNCHANGED <<buf, len, q, rd, ev>>
       ELSE \E o \in ReadOutcomes(SrcFd(d)) :
            /\ len' = o.res
            /\ buf' = IF o.taken THEN Store(buf, o.data) ELSE buf
            /\ q' = IF o.taken THEN [q EXCEPT ![SrcFd(d)] = Tail(@)] ELSE q
            /\ rd' = IF o.taken THEN [rd EXCEPT ![SrcFd(d)] = Append(@, o.data)] ELSE rd
            /\ IF ReadFailed(o.res)
               THEN /\ ev' = ev \o <<Ev("read", SrcFd(d), o.res, o.data),
                                       Ev("perror_read", -1, -1, <<>>)>>
                    /\ pc' = NextPc(d)
               ELSE /\ ev' = ev \o <<Ev("read", SrcFd(d), o.res, o.data),
                                       Ev("printf_read", SrcFd(d), o.res, <<>>)>>
                    /\ pc' = WrPc(d)
    /\ UNCHANGED <<apc, afd, status, openFds, units, attached, dev1, dev2, fd1, fd2,
                   fds, nfds, injected, wr, pending>>

\* a variant passing the buffer's size to write instead of the count read
WriteCountWholeBuffer == BufSize

\* the byte count passed to write
WriteCount == len

\* the outcomes of write(fd, buf, n): an error, all n bytes, or fewer
WriteOutcomes(n) == {-1, n} \cup {k \in {n - 1} : 0 <= k}

\* if (write(...) < 0)
WriteFailed(r) == r < 0

\* a variant that repeats a failed write
AfterWriteRetry(d, r) == IF r < 0 THEN WrPc(d) ELSE NextPc(d)

\* where the loop goes after the write returned r: on to the next statement,
\* whether or not it failed
AfterWrite(d, r) == NextPc(d)

\* if (write(fd, buf, len) < 0) perror("write");
Write(d) ==
    /\ pc = WrPc(d)
    /\ \E r \in WriteOutcomes(WriteCount) :
        /\ wr' = [wr EXCEPT ![DstFd(d)] =
                     Append(@, [data |-> BTake(buf, WriteCount), cnt |-> WriteCount, res |-> r])]
        /\ ev' = ev \o <<Ev("write", DstFd(d), r, BTake(buf, WriteCount))>>
                    \o (IF WriteFailed(r) THEN <<Ev("perror_write", -1, -1, <<>>)>> ELSE <<>>)
        /\ pc' = AfterWrite(d, r)
    /\ UNCHANGED <<apc, afd, status, openFds, units, attached, dev1, dev2, fd1, fd2,
                   buf, len, fds, nfds, q, injected, rd, pending>>

-----------------------------------------------------------------------------
(* Environment: a packet is transmitted on an interface and queued for its reader *)

Inject(f, p) ==
    /\ InLoop
    /\ f \in DOMAIN attached
    /\ injected < MaxInject
    /\ q' = [q EXCEPT ![f] = Append(@, p)]
    /\ injected' = injected + 1
    /\ UNCHANGED <<pc, apc, afd, status, openFds, units, attached, dev1, dev2, fd1, fd2,
                   buf, len, fds, nfds, rd, wr, pending, ev>>

-----------------------------------------------------------------------------

\* one statement of the loop's body
LoopStep ==
    \/ Select
    \/ \E d \in {1, 2} : Service(d)
    \/ \E d \in {1, 2} : Write(d)

Next ==
    \/ TunAllocOpen
    \/ TunAllocIoctl
    \/ MainCheck1
    \/ MainCheck2
    \/ Select
    \/ \E d \in {1, 2} : Service(d)
    \/ \E d \in {1, 2} : Write(d)
    \/ \E f \in Fds, p \in Packets : Inject(f, p)

Spec == Init /\ [][Next]_vars

-----------------------------------------------------------------------------
(* Properties *)

EvIdx == 1 .. Len(ev)
\* the positions of the write calls on descriptor f since the loop's top
WriteIdx(f) == {i \in EvIdx : ev[i].op = "write" /\ ev[i].fd = f}
\* the descriptors the program has opened since it started (before the loop)
OpenedHere == {ev[i].fd : i \in {j \in EvIdx : ev[j].op = "open" /\ ev[j].res >= 0}}
LoopOps == {"select", "read", "write"}

\* What was read on src, and the write attempts made on dst, agree: one write
\* per read, in order, with the read's bytes and the read's length.
Forwarded(src, dst, writing) ==
    LET R == rd[src]
        W == wr[dst]
    IN /\ Len(W) = (IF writing THEN Len(R) - 1 ELSE Len(R))
       /\ \A i \in 1 .. Len(W) :
            /\ W[i].data = R[i]
            /\ W[i].cnt = BLen(R[i])
            /\ BLen(R[i]) <= BufSize

\* C1: every packet (of at most 16384 bytes) a read on fd1 returns is passed to
\* one write on fd2 with the packet's length and exactly its bytes, and the
\* same from fd2 to fd1; the sequence of writes on one handle is the sequence
\* of reads on the other (up to the packet whose write is the next statement).
C1_Transparency ==
    InLoop => /\ Forwarded(fd1, fd2, pc = "wr1")
              /\ Forwarded(fd2, fd1, pc = "wr2")

C1_Witness ==
    /\ pc = "wait"
    /\ Len(rd[fd1]) = 1 /\ Len(rd[fd2]) = 1
    /\ rd[fd1][1] = <<Run(BufSize, 2)>>
    /\ rd[fd2][1] = <<Run(1, 1)>>
    /\ Len(wr[fd2]) = 1 /\ wr[fd2][1].res = BufSize
    /\ Len(wr[fd1]) = 1 /\ wr[fd1][1].res = 1

\* select reported both handles, with a packet queued on each
BothReady ==
    /\ InLoop
    /\ ev # <<>>
    /\ ev[1].op = "select"
    /\ ev[1].res = 2
    /\ DOMAIN pending = {fd1, fd2}
    /\ pending[fd1] # <<>>
    /\ pending[fd2] # <<>>

\* no read or write of this wake failed or fell short
CleanWake ==
    \A i \in EvIdx :
        /\ ev[i].op \notin {"perror_read", "perror_write"}
        /\ ev[i].op = "write" => ev[i].res = BLen(ev[i].data)

\* C2: when one wake reports both handles ready, X queued on fd1 and Y on fd2,
\* then in that wake at most one write goes to fd2 and it carries X, at most
\* one goes to fd1 and it carries Y, and if nothing failed both were made, X
\* first, by the time the next wait begins.
C2_TwoSided ==
    BothReady =>
        LET X == BTake(pending[fd1][1], BufSize)
            Y == BTake(pending[fd2][1], BufSize)
        IN /\ Cardinality(WriteIdx(fd2)) <= 1
           /\ Cardinality(WriteIdx(fd1)) <= 1
           /\ \A i \in WriteIdx(fd2) : ev[i].data = X
           /\ \A i \in WriteIdx(fd1) : ev[i].data = Y
           /\ (pc = "wait" /\ CleanWake) =>
                 \E i \in WriteIdx(fd2), j \in WriteIdx(fd1) : i < j

C2_Witness ==
    /\ BothReady
    /\ pc = "wait"
    /\ CleanWake
    /\ pending[fd1][1] # pending[fd2][1]
    /\ WriteIdx(fd1) # {} /\ WriteIdx(fd2) # {}

\* the second allocation failed after the first succeeded, and main has
\* acted on it
SecondFailed ==
    /\ pc \notin {"alloc1", "chk1", "alloc2", "chk2"}
    /\ fd1 >= 0
    /\ fd2 < 0

\* C3: if the second allocation fails after the first succeeded, the process
\* has exited with status 1, no descriptor remains open, and no select, read
\* or write was ever made.
C3_FatalPath ==
    SecondFailed =>
        /\ pc = "exited"
        /\ status = 1
        /\ openFds = {}
        /\ \A i \in EvIdx : ev[i].op \notin LoopOps

C3_Witness ==
    /\ SecondFailed
    /\ pc = "exited"
    /\ \E i \in EvIdx : ev[i].op = "printf_created"

\* tun_alloc has just returned through its TUNSETIFF failure path
IoctlJustFailed ==
    /\ pc \in {"chk1", "chk2"}
    /\ Len(ev) >= 3
    /\ ev[Len(ev) - 2].op = "ioctl"
    /\ ev[Len(ev) - 2].res < 0

\* C4: when TUNSETIFF is rejected, tun_alloc returns -1 and the descriptor it
\* opened is closed by then; of the descriptors the program opened, only the
\* handle of an earlier successful allocation is still open.
C4_IoctlFailureCloses ==
    IoctlJustFailed =>
        /\ (IF pc = "chk1" THEN fd1 ELSE fd2) = -1
        /\ afd \in OpenedHere
        /\ afd \notin openFds
        /\ ev[Len(ev)].op = "close" /\ ev[Len(ev)].fd = afd
        /\ OpenedHere \cap openFds = (IF pc = "chk1" THEN {} ELSE {fd1})

C4_Witness ==
    /\ IoctlJustFailed
    /\ pc = "chk2"
    /\ fd1 >= 0

\* the order of the statements within one iteration
Rank(p) ==
    CASE p = "wait" -> 0
      [] p = "svc1" -> 1
      [] p = "wr1" -> 2
      [] p = "svc2" -> 3
      [] p = "wr2" -> 4
      [] OTHER -> 5

\* C5: once in the loop, no step leaves it or sets an exit status, whatever
\* select, read and write return; in every state of the loop its next
\* statement can be executed, and every statement moves forward within the
\* iteration or back to the readiness wait.
C5_LoopNeverExits ==
    /\ [][InLoop => /\ InLoop'
                    /\ status' = NoStatus
                    /\ pc' # pc => (pc' = "wait" \/ Rank(pc') > Rank(pc))]_vars
    /\ [](InLoop => ENABLED LoopStep)

\* a wake in which select succeeded and a read and a write failed is over
C5_Witness ==
    /\ pc = "wait"
    /\ \E i \in EvIdx : ev[i].op = "perror_read"
    /\ \E i \in EvIdx : ev[i].op = "perror_write"

\* a select of this iteration is on record
Woken == InLoop /\ ev # <<>> /\ ev[1].op = "select"

Peer(f) == IF f = fd1 THEN fd2 ELSE fd1

\* C6: a failed read on a ready handle is followed by its diagnostic and by no
\* write on the paired handle in that wake: the next call, if any, is the read
\* of the other direction.  Every write of a wake carries the bytes of the
\* successful read made just before it on the paired handle, and when the
\* wake is over every handle reported ready has been read.
C6_ReadErrorSkips ==
    Woken =>
        /\ \A i \in EvIdx :
             (ev[i].op = "read" /\ ev[i].res < 0) =>
                /\ i + 1 \in EvIdx /\ ev[i + 1].op = "perror_read"
                /\ WriteIdx(Peer(ev[i].fd)) = {}
                /\ i + 2 \in EvIdx =>
                      /\ ev[i].fd = fd1
                      /\ ev[i + 2].op = "read" /\ ev[i + 2].fd = fd2
                /\ i + 2 \notin EvIdx =>
                      pc \in (IF ev[i].fd = fd1 THEN {"svc2", "wait"} ELSE {"wait"})
        /\ \A i \in EvIdx :
             ev[i].op = "write" =>
                /\ i >= 3
                /\ ev[i - 2].op = "read" /\ ev[i - 2].res >= 0
                /\ ev[i - 2].fd = Peer(ev[i].fd)
                /\ ev[i - 2].data = ev[i].data
        /\ (pc = "wait" /\ ev[1].res >= 0) =>
              \A f \in fds : \E i \in EvIdx : ev[i].op = "read" /\ ev[i].fd = f

\* the read on fd1 failed with an earlier packet still in the buffer, and the
\* other direction was served in the same wake
C6_Witness ==
    /\ Woken
    /\ pc = "wait"
    /\ Len(ev) >= 3
    /\ ev[2].op = "read" /\ ev[2].fd = fd1 /\ ev[2].res < 0
    /\ BTake(buf, 1) = <<Run(1, 2)>>
    /\ \E i \in EvIdx : ev[i].op = "write" /\ ev[i].fd = fd1 /\ ev[i].data = <<Run(BufSize, 2)>>
    /\ Len(rd[fd1]) = 1

\* C7: the write statement is executed once per successful read: whatever it
\* returns, control moves to the statement after it, one attempt is recorded,
\* and the handles, the ready set, the queues and the buffer are left alone;
\* a failed write is followed by its diagnostic and then, if anything, by the
\* read of the other direction; no handle ever has more write attempts than
\* its pair has successful reads.
C7_WriteErrorNotRetried ==
    /\ [][\A d \in {1, 2} :
            (pc = WrPc(d) /\ pc' # pc) =>
                /\ pc' = NextPc(d)
                /\ Len(wr'[DstFd(d)]) = Len(wr[DstFd(d)]) + 1
                /\ UNCHANGED <<fd1, fd2, fds, q, openFds, buf, len, rd>>]_vars
    /\ [](Woken =>
            \A i \in EvIdx :
                (ev[i].op = "write" /\ ev[i].res < 0) =>
                    /\ i + 1 \in EvIdx /\ ev[i + 1].op = "perror_write"
                    /\ Cardinality(WriteIdx(ev[i].fd)) = 1
                    /\ i + 2 \in EvIdx =>
                          ev[i + 2].op = "read" /\ ev[i + 2].fd = fd2)
    /\ [](InLoop => /\ Len(wr[fd2]) <= Len(rd[fd1])
                    /\ Len(wr[fd1]) <= Len(rd[fd2]))

\* the write to fd2 failed, and the wake went on to forward a packet from fd2
\* to fd1
C7_Witness ==
    /\ Woken
    /\ pc = "wait"
    /\ \E i \in WriteIdx(fd2) : ev[i].res < 0
    /\ \E i \in WriteIdx(fd1) : ev[i].res = BLen(ev[i].data) /\ ev[i].res > 0

\* C8: every select watches exactly the two handles; when it fails, its
\* diagnostic is the only thing that follows it: no read, no write, and the
\* loop is back at the readiness wait.
C8_SelectErrorRetries ==
    Woken =>
        /\ ev[1].data = {fd1, fd2}
        /\ ev[1].res < 0 =>
              /\ pc = "wait"
              /\ Len(ev) = 2
              /\ ev[2].op = "perror_select"
              /\ ENABLED Select

\* select failed with a packet queued and a non-empty set left behind
C8_Witness ==
    /\ Woken
    /\ ev[1].res < 0
    /\ fds = {fd1, fd2}
    /\ HasData # {}

\* C9 as stated: a read returning 0 is followed by no diagnostic and by no
\* write on the paired handle.
C9_NoWriteAfterZeroRead ==
    Woken =>
        \A i \in EvIdx :
            (ev[i].op = "read" /\ ev[i].res = 0) =>
                /\ i + 1 \in EvIdx /\ ev[i + 1].op # "perror_read"
                /\ WriteIdx(Peer(ev[i].fd)) = {}

\* C9, amended: a read returning 0 is not reported as an error; it is traced
\* like any read, and the write statement that follows is executed once, on
\* the paired handle, with byte count 0 and no bytes of the buffer.
C9_ZeroReadWritesNothing ==
    Woken =>
        \A i \in EvIdx :
            (ev[i].op = "read" /\ ev[i].res = 0) =>
                /\ i + 1 \in EvIdx /\ ev[i + 1].op = "printf_read"
                /\ Cardinality(WriteIdx(Peer(ev[i].fd))) <= 1
                /\ i + 2 \in EvIdx =>
                      /\ ev[i + 2].op = "write"
                      /\ ev[i + 2].fd = Peer(ev[i].fd)
                      /\ ev[i + 2].data = <<>>
                /\ i + 2 \notin EvIdx =>
                      /\ pc = (IF ev[i].fd = fd1 THEN "wr1" ELSE "wr2")
                      /\ len = 0

\* a read on fd1 returned 0 with a packet in the buffer, and the write on fd2
\* was made
C9_Witness ==
    /\ Woken
    /\ Len(ev) >= 4
    /\ ev[2].op = "read" /\ ev[2].fd = fd1 /\ ev[2].res = 0
    /\ ev[4].op = "write"
    /\ BTake(buf, 1) = <<Run(1, 2)>>

\* C10 as stated: a write that returns a count below the one requested is
\* followed by a diagnostic.
C10_ShortWriteLogged ==
    Woken =>
        \A i \in EvIdx :
            (ev[i].op = "write" /\ ev[i].res >= 0 /\ ev[i].res < BLen(ev[i].data)) =>
                /\ i + 1 \in EvIdx
                /\ ev[i + 1].op = "perror_write"

\* the positions of the read calls on descriptor f since the loop's top
ReadIdx(f) == {i \in EvIdx : ev[i].op = "read" /\ ev[i].fd = f}

\* a select of this iteration succeeded and reported both handles
BothReported == Woken /\ ev[1].res >= 0 /\ fds = {fd1, fd2} /\ fd1 # fd2

\* C11: when one wake reports both handles, fd1 is read first: the read on
\* fd2 is made only after the read on fd1 and, if that read succeeded, after
\* its write on fd2.
C11_FixedPriority ==
    BothReported =>
        /\ pc \in {"svc2", "wr2", "wait"} => ReadIdx(fd1) # {}
        /\ \A j \in ReadIdx(fd2) :
             \E i \in ReadIdx(fd1) :
                /\ i < j
                /\ ev[i].res >= 0 => \E k \in WriteIdx(fd2) : i < k /\ k < j

\* both handles were reported and both directions forwarded a packet
C11_Witness ==
    /\ BothReported
    /\ \E i \in ReadIdx(fd1) : ev[i].res > 0
    /\ \E j \in ReadIdx(fd2) : ev[j].res > 0
    /\ WriteIdx(fd1) # {}

\* C12: in every state of the loop the two handles are distinct, non-negative,
\* open and bound to an interface, and no step of the loop closes a descriptor
\* or assigns fd1 or fd2, whatever select, read and write return.
C12_HandlesValid ==
    /\ [](InLoop => /\ fd1 # fd2
                    /\ fd1 >= 0 /\ fd2 >= 0
                    /\ {fd1, fd2} \subseteq openFds
                    /\ {fd1, fd2} \subseteq DOMAIN attached
                    /\ \A i \in EvIdx : ev[i].op # "close")
    /\ [][InLoop => UNCHANGED <<fd1, fd2, openFds, attached>>]_vars

\* a wake with a failed read and a failed write is over, with 0 as the first
\* handle
C12_Witness ==
    /\ pc = "wait"
    /\ fd1 = 0
    /\ \E i \in EvIdx : ev[i].op = "perror_read"
    /\ \E i \in EvIdx : ev[i].op = "perror_write"

\* a name of the form tun<digits>
IsTunName(n) ==
    /\ Len(n) >= 4
    /\ SubSeq(n, 1, 3) = <<"t", "u", "n">>
    /\ \A i \in 4 .. Len(n) : \E k \in 1 .. Len(Digits) : n[i] = Digits[k]

\* C13: when both requests for "tun%d" succeeded, the two handles differ, the
\* two name buffers differ, and each buffer holds, in place of the template,
\* the name of the form tun<digits> that its handle's interface was given.
C13_DistinctNames ==
    (pc \notin {"alloc1", "chk1", "alloc2"} /\ fd1 >= 0 /\ fd2 >= 0) =>
        /\ fd1 # fd2
        /\ dev1 # dev2
        /\ dev1 # Template /\ dev2 # Template
        /\ IsTunName(dev1) /\ IsTunName(dev2)
        /\ Len(dev1) < IFNAMSIZ /\ Len(dev2) < IFNAMSIZ
        /\ attached[fd1] = dev1 /\ attached[fd2] = dev2

\* both allocations succeeded on a system where tun0 existed already
C13_Witness ==
    /\ pc = "chk2"
    /\ fd1 >= 0 /\ fd2 >= 0
    /\ dev1 = <<"t", "u", "n", "1">>
    /\ dev2 = <<"t", "u", "n", "2">>

\* the number of open() calls made since the program started (before the loop)
OpenCalls == Cardinality({i \in EvIdx : ev[i].op = "open"})

\* C14: when the first allocation has failed the process has exited with
\* status 1, with nothing open, after a single open() (no second allocation)
\* and without any select, read or write; the process has an exit status
\* exactly when an allocation failed, that status is 1, and it is never 0.
C14_ExitStatus ==
    /\ (pc \notin {"alloc1", "chk1"} /\ fd1 < 0) =>
          /\ pc = "exited"
          /\ status = 1
          /\ openFds = {}
          /\ OpenCalls = 1
          /\ \A i \in EvIdx : ev[i].op \notin LoopOps
    /\ IF pc = "exited" THEN status = 1 ELSE status = NoStatus
    /\ pc = "exited" <=>
          \/ pc \notin {"alloc1", "chk1"} /\ fd1 < 0
          \/ pc \notin {"alloc1", "chk1", "alloc2", "chk2"} /\ fd2 < 0

\* the first allocation failed at TUNSETIFF and the process has exited
C14_Witness ==
    /\ pc = "exited"
    /\ fd1 < 0
    /\ \E i \in EvIdx : ev[i].op = "perror_ioctl"

\* C15: a packet of exactly 16384 bytes queued on a reported handle is
\* returned whole by the one read made on it and passed whole, with count
\* 16384, to the write on the paired handle; every write is given the count
\* its read returned, which is never above the buffer's capacity.
C15_Boundary ==
    /\ (Woken /\ ev[1].res >= 0) =>
          /\ \A f \in DOMAIN pending : \A i \in ReadIdx(f) :
                (pending[f] # <<>> /\ BLen(pending[f][1]) = BufSize /\ ev[i].res >= 0) =>
                    /\ ev[i].res = BufSize
                    /\ ev[i].data = pending[f][1]
                    /\ i + 2 \in EvIdx =>
                          /\ ev[i + 2].op = "write"
                          /\ ev[i + 2].data = pending[f][1]
          /\ \A i \in EvIdx :
                /\ ev[i].op = "read" => ev[i].res <= BufSize
                /\ ev[i].op = "write" => /\ BLen(ev[i].data) = ev[i - 2].res
                                          /\ BLen(ev[i].data) <= BufSize
    /\ pc \in {"wr1", "wr2"} =>
          /\ len >= 0 /\ len <= BufSize
          /\ WriteCount = ev[Len(ev) - 1].res
    /\ InLoop => \A f \in {fd1, fd2} : \A i \in 1 .. Len(wr[f]) :
                    wr[f][i].cnt = BLen(wr[f][i].data) /\ wr[f][i].cnt <= BufSize

\* a packet of 16384 bytes went from fd1 to fd2 in one piece
C15_Witness ==
    /\ Woken
    /\ fd1 \in DOMAIN pending
    /\ pending[fd1] = << <<Run(BufSize, 2)>> >>
    /\ \E i \in WriteIdx(fd2) : ev[i].res = BufSize /\ ev[i].data = <<Run(BufSize, 2)>>

\* C16 as stated: when a wake is over, the trace records issued in it are as
\* many as its successful reads plus its attempted writes, and each is
\* issued right after the call it traces.
C16_TracePerReadAndWrite ==
    (Woken /\ ev[1].res >= 0 /\ pc = "wait") =>
        /\ Cardinality({i \in EvIdx : ev[i].op = "printf_read"})
             = Cardinality({i \in EvIdx : ev[i].op = "read" /\ ev[i].res >= 0})
               + Cardinality({i \in EvIdx : ev[i].op = "write"})
        /\ \A i \in EvIdx :
             ev[i].op = "write" => (i + 1 \in EvIdx /\ ev[i + 1].op = "printf_write")

\* the last element of a non-empty sequence
Last(s) == s[Len(s)]

\* C17: at most one packet that was read is awaiting its write, and only while
\* the write is the next statement: it is then the first len bytes of the
\* buffer; at the readiness wait and before each read nothing is awaiting a
\* write, and within a wake no read comes between a successful read and its
\* write.
C17_OneInFlight ==
    InLoop =>
        /\ Len(rd[fd1]) - Len(wr[fd2]) = (IF pc = "wr1" THEN 1 ELSE 0)
        /\ Len(rd[fd2]) - Len(wr[fd1]) = (IF pc = "wr2" THEN 1 ELSE 0)
        /\ pc = "wr1" => BTake(buf, len) = Last(rd[fd1])
        /\ pc = "wr2" => BTake(buf, len) = Last(rd[fd2])
        /\ Woken =>
              \A i \in EvIdx :
                  (ev[i].op = "read" /\ ev[i].res >= 0 /\ i + 2 \in EvIdx) =>
                      ev[i + 2].op = "write" /\ ev[i + 2].data = ev[i].data

\* a 1-byte packet read from fd2 awaits its write while the buffer still
\* holds the rest of a 16384-byte packet forwarded from fd1 before
C17_Witness ==
    /\ pc = "wr2"
    /\ len = 1
    /\ buf = <<Run(1, 1), Run(BufSize - 1, 2)>>
    /\ Len(rd[fd1]) = 1 /\ Len(wr[fd2]) = 1

\* C18: in a wake in which select succeeded, a handle it reported is read
\* exactly once by the time the wake is over (fd1 by the time its block is
\* passed), a handle it did not report is not read, and this does not depend
\* on what happened in the other direction; a packet queued on a reported
\* handle is the one its read of this wake returns.
C18_ReadyReadOnce ==
    (Woken /\ ev[1].res >= 0) =>
        \A f \in {fd1, fd2} :
            /\ Cardinality(ReadIdx(f)) <= 1
            /\ f \notin fds => ReadIdx(f) = {}
            /\ (f \in fds /\ pc = "wait") => Cardinality(ReadIdx(f)) = 1
            /\ (f \in fds /\ f = fd1 /\ pc \in {"svc2", "wr2"}) => Cardinality(ReadIdx(f)) = 1
            /\ \A i \in ReadIdx(f) :
                 (pending[f] # <<>> /\ ev[i].res >= 0) =>
                     ev[i].data = BTake(pending[f][1], BufSize)

\* both handles were reported, the write of fd1's packet failed, and fd2's
\* packet was read in the same wake
C18_Witness ==
    /\ Woken
    /\ ev[1].res >= 0
    /\ pc = "wait"
    /\ fds = {fd1, fd2}
    /\ \E i \in WriteIdx(fd2) : ev[i].res < 0
    /\ \E i \in ReadIdx(fd2) : ev[i].res > 0

\* C19: tun_alloc returns -1 on failure and leaves the caller's buffer as it
\* was, the template; TUNSETIFF is only ever issued on the descriptor the
\* open just before it returned, never after a failed open; on success the
\* handle is a non-negative open descriptor and the buffer holds the name its
\* interface was given.  A call leaves the other call's buffer alone.
C19_AllocatorFrame ==
    /\ pc = "chk1" =>
          /\ dev2 = Template
          /\ IF fd1 < 0
             THEN fd1 = -1 /\ dev1 = Template
             ELSE fd1 \in openFds /\ dev1 = attached[fd1] /\ dev1 # Template
    /\ pc = "chk2" =>
          /\ dev1 = attached[fd1]
          /\ IF fd2 < 0
             THEN fd2 = -1 /\ dev2 = Template
             ELSE fd2 \in openFds /\ dev2 = attached[fd2] /\ dev2 # Template
    /\ \A i \in EvIdx :
          /\ ev[i].op = "ioctl" =>
                /\ ev[i].fd >= 0
                /\ i >= 2 /\ ev[i - 1].op = "open" /\ ev[i - 1].res = ev[i].fd
          /\ (ev[i].op = "open" /\ ev[i].res < 0) =>
                /\ i + 1 \in EvIdx /\ ev[i + 1].op = "perror_open"
                /\ i + 2 \notin EvIdx

\* the second call failed at open, after a first call that succeeded
C19_Witness ==
    /\ pc = "chk2"
    /\ fd2 < 0
    /\ ev[Len(ev)].op = "perror_open"
    /\ dev1 # Template

\* C20: whatever the set holds at the top of the loop (the handles the last
\* wake reported, or what a failed select left), the select then made
\* watches exactly fd1 and fd2, with nfds above both; it has no timeout, so
\* it does not return 0, and when it succeeds every handle with a packet
\* queued is in the set it returns.
C20_WatchBoth ==
    [][(pc = "wait" /\ ev' # ev) =>
          /\ ev'[1].op = "select"
          /\ ev'[1].data = {fd1, fd2}
          /\ ev'[1].fd > fd1 /\ ev'[1].fd > fd2
          /\ ev'[1].res # 0
          /\ nfds' = ev'[1].res
          /\ ev'[1].res > 0 => /\ fds' # {}
                               /\ fds' \subseteq {fd1, fd2}
                               /\ (HasData \cap {fd1, fd2}) \subseteq fds']_vars

\* a wake reports fd2 alone, with a packet, after an earlier wake forwarded a
\* packet from fd1 and none from fd2
C20_Witness ==
    /\ Woken
    /\ ev[1].res >= 0
    /\ fds = {fd2}
    /\ pending[fd2] # <<>>
    /\ Len(rd[fd1]) = 1 /\ Len(wr[fd2]) = 1
    /\ rd[fd2] = <<>>

=============================================================================
